---------------------------- MODULE Spec2Model ----------------------------
(***************************************************************************)
(* A model of pdf_header_detector.HeaderDetector                           *)
(* (src/pdf_header_detector/detector.py).                                  *)
(*                                                                         *)
(* Units.  Font sizes, thresholds and their differences are integers in    *)
(* hundredths of a point: 12.0pt is 1200, the 0.5pt clustering distance is *)
(* 50, the 20.0pt "always a header" limit is 2000.  A rounded size         *)
(* (round(size, 1)) is a multiple of 10.  Coordinates are in tenths of a   *)
(* unit: y = 100.2 is 1002, the default grouping tolerance 1.0 is 10.      *)
(*                                                                         *)
(* Text.  A text is a sequence of words (TLA+ strings holding no white     *)
(* space); it stands for the string in which the words are separated by    *)
(* single spaces.  The empty sequence is the text that is empty after      *)
(* strip().                                                                *)
(***************************************************************************)
EXTENDS Integers, Sequences, FiniteSets, TLC

VARIABLES
    detected_headers,   \* self.detected_headers
    last,               \* the last finished call: its arguments and outcome
    out_file,           \* the content of the destination file of save_headers_to_json
    ref,                \* history: one remembered successful detection run
    h_in,               \* input of _analyze_font_hierarchy (analysis specification)
    h_out               \* its result

vars == <<detected_headers, last, out_file, ref, h_in, h_out>>

\* Python's None where a font size is expected (min_size, font_size): sizes are
\* positive.
None == -1

----------------------------------------------------------------------------
(* Generic helpers: Python built-ins used by the code.                     *)

Max(S) == CHOOSE m \in S : \A n \in S : n <= m

Min(S) == CHOOSE m \in S : \A n \in S : m <= n

Abs(n) == IF n < 0 THEN -n ELSE n

Range(s) == {s[i] : i \in DOMAIN s}

\* [e for e in s if e in keep]
SelectSeqBy(s, keep) == SelectSeq(s, LAMBDA e : e \in keep)

\* The concatenation of a sequence of sequences.
RECURSIVE Flatten(_)
Flatten(ss) == IF ss = <<>> THEN <<>> ELSE Head(ss) \o Flatten(Tail(ss))

\* sorted(set(S), reverse=True) for a set of integers.
RECURSIVE SortedDesc(_)
SortedDesc(S) ==
    IF S = {} THEN <<>> ELSE <<Max(S)>> \o SortedDesc(S \ {Max(S)})

\* The place of s[i] after a stable ascending sort of s on the field k: behind
\* the elements of a smaller key and the earlier ones of the same key.
PlaceByKey(s, i, k) ==
    1 + Cardinality({j \in DOMAIN s :
                        s[j][k] < s[i][k] \/ (s[j][k] = s[i][k] /\ j < i)})

\* sorted(s, key=lambda e: e[k]) and list.sort(key=...): stable, ascending.
SortedByKey(s, k) ==
    [n \in DOMAIN s |-> s[CHOOSE i \in DOMAIN s : PlaceByKey(s, i, k) = n]]

\* The first element of s whose field k is the largest: max(s, key=...).
FirstMaxByKey(s, k) ==
    LET top == Max({s[i][k] : i \in DOMAIN s})
    IN  s[Min({i \in DOMAIN s : s[i][k] = top})]

----------------------------------------------------------------------------
(* Numbers of the code, in hundredths of a point.                          *)

LargeFont == 2000        \* 20.0: "always a header" / never body text
BodyMargin == 200        \* body_text_size + 2.0
SimilarDist == 50        \* sizes within 0.5pt form one cluster
FrequentCount == 5       \* a body-text candidate has count > 5
TopCommon == 5           \* size_counts.most_common(5)
ConservativeMin == 1200  \* min_threshold = 12.0
LargeHeader == 2500      \* large_headers: s > 25.0
ThresholdStep == 100     \* most_common_size + 1.0
SamplePages == 5         \* the threshold scan reads the first 5 pages
Unclassified == 99       \* _get_header_level's default

\* round(size, 1) of a size given in hundredths: to the nearest tenth, a tie
\* to the even tenth (the sizes drawn below hold no tie).
Round1(h) ==
    LET lo == (h \div 10) * 10
        r == h - lo
    IN  IF r < 5 THEN lo
        ELSE IF r > 5 THEN lo + 10
        ELSE IF (lo \div 10) % 2 = 0 THEN lo ELSE lo + 10

RoundAll(sizes) == [i \in DOMAIN sizes |-> Round1(sizes[i])]

\* Counter(sizes)[s]
CountOf(sizes, s) == Cardinality({i \in DOMAIN sizes : sizes[i] = s})

\* The position at which s first occurs in sizes.
FirstSeen(sizes, s) == Min({i \in DOMAIN sizes : sizes[i] = s})

\* Counter(sizes).most_common(n), as the sequence of the sizes: by count,
\* largest first, equal counts in the order of first occurrence.
RECURSIVE MostCommonFrom(_, _, _)
MostCommonFrom(sizes, S, n) ==
    IF n = 0 \/ S = {} THEN <<>>
    ELSE LET top == Max({CountOf(sizes, s) : s \in S})
             tied == {s \in S : CountOf(sizes, s) = top}
             pick == CHOOSE s \in tied :
                        \A t \in tied : FirstSeen(sizes, s) <= FirstSeen(sizes, t)
         IN  <<pick>> \o MostCommonFrom(sizes, S \ {pick}, n - 1)

MostCommon(sizes, n) == MostCommonFrom(sizes, Range(sizes), n)

----------------------------------------------------------------------------
(* HeaderDetector._analyze_font_hierarchy                                  *)

\* header_unique_sizes: the rounded sizes above min_size, descending.
HeaderUniqueSizes(rounded, min_size) ==
    SortedDesc({s \in Range(rounded) : s > min_size})

\* body_text_candidates, as a set.
BodyTextCandidates(rounded) ==
    LET mc == MostCommon(rounded, TopCommon)
    IN  {s \in Range(mc) : s <= LargeFont /\ CountOf(rounded, s) > FrequentCount}

\* The sizes kept when a body-text size was detected.
KeptSizes(header_unique, body) ==
    {s \in Range(header_unique) : s > LargeFont \/ s > body + BodyMargin}

\* The filter of lines 343-359 for the candidates found:
\* (body_text_size, filtered_sizes).
FilterWith(body_text_candidates, header_unique, min_size) ==
    IF body_text_candidates # {}
    THEN [body_text_size |-> Max(body_text_candidates),
          filtered_sizes |->
              SelectSeqBy(header_unique,
                          KeptSizes(header_unique, Max(body_text_candidates)))]
    ELSE [body_text_size |-> min_size, filtered_sizes |-> header_unique]

FilterSizes(rounded, header_unique, min_size) ==
    FilterWith(BodyTextCandidates(rounded), header_unique, min_size)

\* abs(a - b) <= 0.5
CloseTo(a, b) == Abs(a - b) <= SimilarDist

\* The clustering loop of lines 367-379 from position i of filtered_sizes, with
\* the sizes used so far: the clusters, in the order they are found.  Each is
\* [rep |-> group_representative, members |-> similar_sizes].
RECURSIVE ClusterFrom(_, _, _)
ClusterFrom(filtered, i, used) ==
    IF i > Len(filtered) THEN <<>>
    ELSE IF filtered[i] \in used THEN ClusterFrom(filtered, i + 1, used)
    ELSE LET similar == {s \in Range(filtered) :
                            CloseTo(s, filtered[i]) /\ s \notin used}
         IN  IF similar # {}
             THEN <<[rep |-> Max(similar), members |-> similar]>>
                  \o ClusterFrom(filtered, i + 1, used \cup similar)
             ELSE ClusterFrom(filtered, i + 1, used)

Clusters(filtered) == ClusterFrom(filtered, 1, {})

\* A sort that forgets reverse=True: ascending.
RECURSIVE SortAscSeq(_)
SortAscSeq(s) ==
    IF s = <<>> THEN <<>>
    ELSE LET i == Min({j \in DOMAIN s : s[j] = Min(Range(s))})
         IN  <<s[i]>> \o SortAscSeq(SubSeq(s, 1, i - 1) \o SubSeq(s, i + 1, Len(s)))

\* grouped_sizes after grouped_sizes.sort(reverse=True).  The representatives
\* are kept as a list: equal ones would stay twice.
RECURSIVE SortDescSeq(_)
SortDescSeq(s) ==
    IF s = <<>> THEN <<>>
    ELSE LET i == Min({j \in DOMAIN s : s[j] = Max(Range(s))})
         IN  <<s[i]>> \o SortDescSeq(SubSeq(s, 1, i - 1) \o SubSeq(s, i + 1, Len(s)))

GroupedSizes(filtered) ==
    LET cl == Clusters(filtered)
    IN  SortDescSeq([i \in DOMAIN cl |-> cl[i].rep])

\* Levels counted from 0: enumerate(grouped_sizes) without its start.
LevelOfFromZero(grouped, original_size) ==
    Max({i \in DOMAIN grouped : CloseTo(original_size, grouped[i])}) - 1

\* The level the loop of lines 389-394 leaves on original_size: every
\* grouped size within 0.5pt assigns its rank, and the last assignment stays.
LevelOf(grouped, original_size) ==
    Max({i \in DOMAIN grouped : CloseTo(original_size, grouped[i])})

\* header_levels / size_to_level: a function on the sizes that got a level.
SizeToLevel(grouped, header_unique) ==
    LET keys == {s \in Range(header_unique) :
                    \E i \in DOMAIN grouped : CloseTo(s, grouped[i])}
    IN  [s \in keys |-> LevelOf(grouped, s)]

\* The dictionary returned at lines 396-405.
HierarchyResult(rounded, header_unique, body_text_size, grouped, levels, most_common) ==
    [all_sizes |-> SortedDesc(Range(rounded)),
     header_sizes |-> header_unique,
     body_text_size |-> body_text_size,
     filtered_sizes |-> grouped,
     header_levels |-> levels,
     size_to_level |-> levels,
     total_levels |-> Len(grouped),
     font_frequency |-> [i \in DOMAIN most_common |->
                            <<most_common[i], CountOf(rounded, most_common[i])>>]]

\* Lines 363-405, from the filter's result f.
HierarchyOfGrouped(rounded, header_unique, body_text_size, grouped) ==
    HierarchyResult(rounded, header_unique, body_text_size, grouped,
                    SizeToLevel(grouped, header_unique),
                    MostCommon(rounded, TopCommon))

HierarchyOfFiltered(rounded, header_unique, f) ==
    HierarchyOfGrouped(rounded, header_unique, f.body_text_size,
                       GroupedSizes(f.filtered_sizes))

\* Lines 324-405, from the rounded sizes.
HierarchyOfHeaderSizes(rounded, header_unique, min_size) ==
    HierarchyOfFiltered(rounded, header_unique,
                        FilterSizes(rounded, header_unique, min_size))

HierarchyOfRounded(rounded, min_size) ==
    HierarchyOfHeaderSizes(rounded, HeaderUniqueSizes(rounded, min_size), min_size)

AnalyzeFontHierarchy(all_font_sizes, min_size) ==
    HierarchyOfRounded(RoundAll(all_font_sizes), min_size)

\* HeaderDetector._get_header_level
GetHeaderLevel(font_size, header_levels) ==
    IF font_size \in DOMAIN header_levels THEN header_levels[font_size]
    ELSE Unclassified

----------------------------------------------------------------------------
(* Text: len(), str.lower().split(), " ".join().                           *)

RECURSIVE SumLen(_)
SumLen(words) == IF words = <<>> THEN 0 ELSE Len(Head(words)) + SumLen(Tail(words))

\* len(text): the words and the single spaces between them.
TextLen(text) == IF text = <<>> THEN 0 ELSE SumLen(text) + Len(text) - 1

\* " ".join(texts), for texts none of which is empty.
JoinTexts(texts) == Flatten(texts)

\* word.lower(), on the words the documents below hold.
Lower(w) ==
    CASE w = "The" -> "the"
      [] w = "Of" -> "of"
      [] w = "In" -> "in"
      [] w = "Results" -> "results"
      [] w = "Introduction" -> "introduction"
      [] w = "Background" -> "background"
      [] w = "Discussion" -> "discussion"
      [] w = "Appendix" -> "appendix"
      [] w = "Figure" -> "figure"
      [] OTHER -> w

\* text.lower().split()
LowerWords(text) == [i \in DOMAIN text |-> Lower(text[i])]

body_indicators ==
    {"the", "and", "of", "in", "to", "for", "with", "on", "at", "by",
     "this", "that", "these", "those", "such", "can", "will", "should",
     "figure", "table", "page", "section", "chapter", "appendix", "see"}

LongTextLen == 200       \* len(text) > 200
LongSentenceWords == 15  \* len(words) > 15
ManyWords == 8           \* threshold = 0.5 if len(words) > 8 else 0.6

\* The heuristic with the length and word-count rules before the font rule.
IsLikelyBodyTextLengthFirst(text, font_size) ==
    IF TextLen(text) > LongTextLen THEN TRUE
    ELSE IF Len(text) > LongSentenceWords THEN TRUE
    ELSE IF font_size # None /\ font_size # 0 /\ font_size > LargeFont THEN FALSE
    ELSE 10 * Cardinality({i \in DOMAIN text : Lower(text[i]) \in body_indicators})
            > Len(text) * (IF Len(text) > ManyWords THEN 5 ELSE 6)

\* HeaderDetector._is_likely_body_text.  font_size is None or a size in
\* hundredths; None and 0 are false in "if font_size and ...".  The ratio test
\* body_count > len(words) * threshold is stated in tenths.
IsLikelyBodyText(text, font_size) ==
    IF font_size # None /\ font_size # 0 /\ font_size > LargeFont THEN FALSE
    ELSE IF TextLen(text) > LongTextLen THEN TRUE
    ELSE LET words == LowerWords(text)
             body_count == Cardinality({i \in DOMAIN words : words[i] \in body_indicators})
             threshold == IF Len(words) > ManyWords THEN 5 ELSE 6
         IN  IF Len(words) > LongSentenceWords THEN TRUE
             ELSE 10 * body_count > Len(words) * threshold

----------------------------------------------------------------------------
(* Documents.  A document is what fitz gives for a path: pages, each a      *)
(* sequence of blocks; a block is ImageBlock (without the "lines" key) or   *)
(* Lines(spans), the spans of its lines in order.  A span is                *)
(* [text, size, x, y]: its raw text as a word sequence (<<>>: only white    *)
(* space), its raw size in hundredths, bbox[0] and bbox[1] in tenths.       *)
(* font, flags and the rest of bbox are stored by the code and never read.  *)

ImageBlock == [image |-> TRUE]

Lines(spans) == [lines |-> spans]

\* Scenario A holds 2 * ScenarioFill fragments of size 12.0.
ScenarioFill == 100

Span(text, size, x, y) == [text |-> text, size |-> size, x |-> x, y |-> y]

RECURSIVE Rep(_, _)
Rep(w, n) == IF n = 0 THEN "" ELSE w \o Rep(w, n - 1)

\* A word of 297 characters.
LongWord == Rep("xxxxxxxxx", 33)

Lorem == <<"lorem", "ipsum">>

\* n body lines: the text Lorem at 12.0pt, one below the other from y0.
BodyFill(n, y0) == [i \in 1..n |-> Span(Lorem, 1200, 720, y0 + 150 * i)]

\* Sixteen words, each a body indicator.
StopSentence ==
    <<"The", "of", "and", "in", "to", "for", "with", "on",
      "at", "by", "this", "that", "these", "those", "such", "can">>

Page(id) ==
    CASE id = "intro" ->
            << Lines(<<Span(<<"Introduction">>, 2400, 720, 500)>>),
               ImageBlock,
               \* 11.96 and 12.04 both round to 12.0
               Lines(<<Span(Lorem, 1196, 720, 1000), Span(Lorem, 1204, 720, 1150)>>
                     \o BodyFill(4, 1150)) >>
      [] id = "bg" ->
            << Lines(<<Span(<<"Background">>, 1800, 720, 500)>>),
               Lines(BodyFill(6, 1000)),
               Lines(<<Span(<<"Introduction">>, 2400, 720, 7000)>>) >>
      [] id = "line" ->
            \* one line written as two spans, right part first; a span of
            \* white space in a large font; a line 0.7 below another's anchor
            << Lines(<<Span(<<"Results">>, 1800, 2000, 1002),
                       Span(<<"2.">>, 1800, 720, 1009),
                       Span(<<>>, 3000, 720, 1200),
                       Span(<<"Discussion">>, 1600, 720, 1050)>>),
               Lines(<<Span(<<"The", "Results">>, 1600, 720, 2000),
                       Span(<<"Background">>, 1800, 720, 2500),
                       Span(<<"see", "Figure">>, 1600, 720, 3000)>>) >>
      [] id = "long" ->
            << Lines(<<Span(StopSentence, 2400, 720, 500),
                       Span(StopSentence \o <<"will">>, 1800, 720, 800),
                       Span(<<LongWord>>, 2400, 720, 1100),
                       Span(<<"a">>, 2400, 5000, 1100),
                       Span(<<LongWord>>, 2400, 720, 1400),
                       Span(<<"ab">>, 2400, 5000, 1400),
                       Span(<<"1.">>, 2400, 720, 1700),
                       Span(<<"1.1">>, 2400, 720, 2000),
                       Span(<<LongWord>>, 1800, 720, 2300)>>) >>
      [] id = "chain" ->
            << Lines(<<Span(<<"Results">>, 1500, 720, 500),
                       Span(<<"Discussion">>, 1458, 720, 800),
                       Span(<<"Background">>, 1421, 720, 1100),
                       Span(<<"Summary">>, 1378, 720, 1400),
                       Span(<<"Introduction">>, 2030, 720, 1700)>>),
               Lines(BodyFill(6, 2000)) >>
      [] id = "body" ->
            << Lines(BodyFill(6, 1000)) >>
      [] id = "big" ->
            << Lines(<<Span(<<"Appendix">>, 2600, 720, 500),
                       Span(<<"Results">>, 1400, 720, 800)>>) >>
      [] id = "A1" ->
            << Lines(<<Span(<<"Introduction">>, 2400, 720, 500)>>),
               Lines(BodyFill(ScenarioFill, 1000)) >>
      [] id = "A2" ->
            << Lines(<<Span(<<"Background">>, 1800, 720, 500)>>),
               Lines(BodyFill(ScenarioFill, 1000)) >>

\* What a path resolves to: kind "missing" (os.path.exists is false),
\* "unreadable" (fitz.open raises) or "pdf"; pages, the ids of its pages;
\* bad_page, the page whose get_text raises (0: none).
Doc(kind, pages, bad_page) == [kind |-> kind, pages |-> pages, bad_page |-> bad_page]

ScenarioA == Doc("pdf", <<"A1", "A2">>, 0)

SixPages == <<"body", "body", "body", "body", "body", "big">>

Docs ==
    {Doc("missing", <<>>, 0), Doc("unreadable", <<"intro">>, 0),
     Doc("pdf", <<"intro", "bg">>, 2), Doc("pdf", SixPages, 6),
     Doc("pdf", <<>>, 0),
     Doc("pdf", <<"intro">>, 0), Doc("pdf", <<"intro", "bg">>, 0),
     Doc("pdf", <<"bg", "intro">>, 0), Doc("pdf", <<"intro", "body", "intro">>, 0),
     Doc("pdf", <<"line">>, 0), Doc("pdf", <<"intro", "line">>, 0),
     Doc("pdf", <<"long">>, 0), Doc("pdf", <<"body", "long">>, 0),
     Doc("pdf", <<"chain">>, 0), Doc("pdf", <<"chain", "bg">>, 0),
     Doc("pdf", SixPages, 0), ScenarioA}

\* The min_size arguments drawn: None (auto-detection), 10.0, 14.0, 20.0.
MinSizes == {None, 1000, 1400, 2000}

----------------------------------------------------------------------------
(* Reading a document: the loops of lines 77-102, 173-184 and 481-492.     *)

\* The text elements of one block of page page_num: a span whose stripped
\* text is empty gives none.
BlockElements(block, page_num) ==
    IF "lines" \notin DOMAIN block THEN <<>>
    ELSE LET spans == SelectSeq(block.lines, LAMBDA span : span.text # <<>>)
         IN  [i \in DOMAIN spans |->
                [text |-> spans[i].text,
                 font_size |-> Round1(spans[i].size),
                 page |-> page_num,
                 x |-> spans[i].x,
                 y |-> spans[i].y]]

PageElements(id, page_num) ==
    LET blocks == Page(id)
    IN  Flatten([b \in DOMAIN blocks |-> BlockElements(blocks[b], page_num)])

\* all_text_elements after the pages 1..n of the document were read.
Elements(pages, n) == Flatten([p \in 1..n |-> PageElements(pages[p], p)])

FontSizes(elements) == [i \in DOMAIN elements |-> elements[i].font_size]

\* The threshold of lines 188-212 from the sampled sizes.
ThresholdFrom(large_headers, most_common) ==
    IF large_headers # {} THEN ConservativeMin
    ELSE (IF most_common # <<>> THEN most_common[1] ELSE ConservativeMin)
         + ThresholdStep

AutoThreshold(all_font_sizes) ==
    ThresholdFrom({s \in Range(all_font_sizes) : s > LargeHeader},
                  MostCommon(all_font_sizes, 3))

\* HeaderDetector._auto_detect_header_threshold: the outcome of the call on
\* an existing path.  leaked counts the handles it opened and did not close.
\* min(5, len(doc))
SampleLen(pages) == IF SamplePages < Len(pages) THEN SamplePages ELSE Len(pages)

AutoDetectHeaderThreshold(doc) ==
    IF doc.kind = "unreadable"
    THEN [outcome |-> "FitzOpenError", steps |-> <<"auto_open">>, leaked |-> 0,
          threshold |-> None]
    ELSE IF doc.bad_page \in 1..SampleLen(doc.pages)
    THEN [outcome |-> "DecodeError", steps |-> <<"auto_open", "auto_read">>,
          leaked |-> 1, threshold |-> None]
    ELSE [outcome |-> "ok", steps |-> <<"auto_open", "auto_read", "auto_close">>,
          leaked |-> 0,
          threshold |->
              AutoThreshold(FontSizes(Elements(doc.pages, SampleLen(doc.pages))))]

----------------------------------------------------------------------------
(* HeaderDetector._group_by_y_position                                     *)

Tolerance == 10          \* tolerance: float = 1.0

\* The page numbers in the order in which they first occur: the keys of the
\* dict pages.
PageOrder(elements) ==
    LET nums == {elements[i].page : i \in DOMAIN elements}
        first(p) == Min({i \in DOMAIN elements : elements[i].page = p})
    IN  [n \in 1..Cardinality(nums) |->
            CHOOSE p \in nums : Cardinality({q \in nums : first(q) < first(p)}) = n - 1]

\* pages[p]: the elements of page p, in order.
OnPage(elements, p) == SelectSeq(elements, LAMBDA e : e.page = p)

\* A scan that compares with the y of the element before: current_y follows
\* the line.
RECURSIVE ScanLinesRunning(_, _, _, _, _, _)
ScanLinesRunning(sorted, i, page_groups, current_group, current_y, tolerance) ==
    IF i > Len(sorted) THEN Append(page_groups, current_group)
    ELSE IF Abs(sorted[i].y - current_y) <= tolerance
    THEN ScanLinesRunning(sorted, i + 1, page_groups,
                          Append(current_group, sorted[i]), sorted[i].y, tolerance)
    ELSE ScanLinesRunning(sorted, i + 1, Append(page_groups, current_group),
                          <<sorted[i]>>, sorted[i].y, tolerance)

\* The scan of lines 287-300 from position i, with the groups closed so far,
\* the current group and its anchor current_y.
RECURSIVE ScanLines(_, _, _, _, _, _)
ScanLines(sorted, i, page_groups, current_group, current_y, tolerance) ==
    IF i > Len(sorted) THEN Append(page_groups, current_group)
    ELSE IF Abs(sorted[i].y - current_y) <= tolerance
    THEN ScanLines(sorted, i + 1, page_groups, Append(current_group, sorted[i]),
                   current_y, tolerance)
    ELSE ScanLines(sorted, i + 1, Append(page_groups, current_group), <<sorted[i]>>,
                   sorted[i].y, tolerance)

\* The groups of one page, from its elements sorted by y.
GroupsOfSorted(sorted_elements, tolerance) ==
    IF sorted_elements = <<>> THEN <<>>
    ELSE ScanLines(sorted_elements, 2, <<>>, <<sorted_elements[1]>>,
                   sorted_elements[1].y, tolerance)

PageGroups(page_elements, tolerance) ==
    GroupsOfSorted(SortedByKey(page_elements, "y"), tolerance)

\* all_groups, the pages taken in the order given.
GroupsInOrder(elements, order, tolerance) ==
    Flatten([k \in DOMAIN order |-> PageGroups(OnPage(elements, order[k]), tolerance)])

GroupByYPosition(elements, tolerance) ==
    IF elements = <<>> THEN <<>>
    ELSE GroupsInOrder(elements, PageOrder(elements), tolerance)

----------------------------------------------------------------------------
(* HeaderDetector.detect_headers_by_font_size, lines 106-157.              *)

MinHeaderLen == 2        \* 2 < len(combined_text)
MaxHeaderLen == 300      \* len(combined_text) < 300

\* The dict appended at lines 131-137.
HeaderRecord(text, level, page, size) ==
    [header |-> text,
     header_level_name |-> "level " \o ToString(level),
     page |-> page,
     header_level |-> level,
     _font_size |-> size]

\* " ".join(elem["text"] for elem in by_x)
TextsJoined(by_x) == JoinTexts([i \in DOMAIN by_x |-> by_x[i].text])

\* combined_text of a group: the texts by ascending x, joined.
CombinedText(group) == TextsJoined(SortedByKey(group, "x"))

GroupMaxFont(group) == Max({group[i].font_size : i \in DOMAIN group})

\* The tests with an upper limit that admits 300 characters.
QualifiesUpTo300(combined_text, max_font_size, header_levels) ==
    /\ max_font_size \in DOMAIN header_levels
    /\ MinHeaderLen < TextLen(combined_text)
    /\ TextLen(combined_text) <= MaxHeaderLen
    /\ ~IsLikelyBodyText(combined_text, max_font_size)

\* The tests of lines 119 and 124 on a group's text and largest font size.
QualifiesAs(combined_text, max_font_size, header_levels) ==
    /\ max_font_size \in DOMAIN header_levels
    /\ MinHeaderLen < TextLen(combined_text)
    /\ TextLen(combined_text) < MaxHeaderLen
    /\ ~IsLikelyBodyText(combined_text, max_font_size)

Qualifies(group, header_levels) ==
    QualifiesAs(CombinedText(group), GroupMaxFont(group), header_levels)

\* What one group adds to headers.
GroupHeader(group, combined_text, max_font_size, header_levels) ==
    IF QualifiesAs(combined_text, max_font_size, header_levels)
    THEN <<HeaderRecord(combined_text, header_levels[max_font_size],
                        FirstMaxByKey(group, "font_size").page, max_font_size)>>
    ELSE <<>>

\* headers: one record for every qualifying group, in group order.
Headers(groups, header_levels) ==
    Flatten([g \in DOMAIN groups |->
        GroupHeader(groups[g], CombinedText(groups[g]), GroupMaxFont(groups[g]),
                    header_levels)])

\* A deduplication that keeps the last record of every text.
RECURSIVE UniqueKeepLast(_)
UniqueKeepLast(headers) ==
    IF headers = <<>> THEN <<>>
    ELSE (IF \E i \in 2..Len(headers) : headers[i].header = Head(headers).header
          THEN <<>> ELSE <<Head(headers)>>)
         \o UniqueKeepLast(Tail(headers))

\* The loop of lines 143-146 from the seen texts.
RECURSIVE UniqueFrom(_, _)
UniqueFrom(headers, seen_texts) ==
    IF headers = <<>> THEN <<>>
    ELSE IF Head(headers).header \in seen_texts
    THEN UniqueFrom(Tail(headers), seen_texts)
    ELSE <<Head(headers)>>
         \o UniqueFrom(Tail(headers), seen_texts \cup {Head(headers).header})

UniqueHeaders(headers) == UniqueFrom(headers, {})

\* A sort by page with reverse=True.
SortHeadersDescending(unique_headers) ==
    [i \in DOMAIN unique_headers |->
        SortedByKey(unique_headers, "page")[Len(unique_headers) + 1 - i]]

\* unique_headers.sort(key=lambda x: x["page"])
SortHeaders(unique_headers) == SortedByKey(unique_headers, "page")

\* What lines 106-149 compute from the elements read and min_size.
Classified(font_analysis, lines, headers) ==
    [font_analysis |-> font_analysis,
     lines |-> lines,
     headers |-> headers,
     unique_headers |-> SortHeaders(UniqueHeaders(headers))]

\* The lines found: of every group its combined text, its largest font size
\* and the page of its first element.
LinesOf(groups) ==
    [g \in DOMAIN groups |->
        [text |-> CombinedText(groups[g]),
         max_font_size |-> GroupMaxFont(groups[g]),
         page |-> groups[g][1].page]]

ClassifyGroups(font_analysis, grouped_elements) ==
    Classified(font_analysis, LinesOf(grouped_elements),
               Headers(grouped_elements, font_analysis.header_levels))

Classify(elements, min_size) ==
    ClassifyGroups(AnalyzeFontHierarchy(FontSizes(elements), min_size),
                   GroupByYPosition(elements, Tolerance))

----------------------------------------------------------------------------
(* The calls.  A call runs to its end in one step (the detector is          *)
(* synchronous and single-threaded); what it did is kept in `last`:         *)
(*   outcome  "ok" or the exception it raised,                              *)
(*   steps    the stages it went through, in order,                         *)
(*   leaked   the document handles it opened and had not closed at its end. *)

Failed(outcome, steps, leaked) ==
    [outcome |-> outcome, steps |-> steps, leaked |-> leaked]

\* Lines 69-149 once min_size is resolved to threshold: `before` are the
\* stages gone through so far.
DetectOk(before, threshold, c) ==
    [outcome |-> "ok",
     steps |-> before \o <<"open", "read", "close", "analyze", "group", "filter",
                           "dedup", "sort">>,
     leaked |-> 0,
     threshold |-> threshold,
     font_analysis |-> c.font_analysis,
     lines |-> c.lines,
     headers |-> c.headers,
     unique_headers |-> c.unique_headers]

DetectFrom(doc, before, threshold) ==
    IF doc.kind = "unreadable"
    THEN Failed("ErrorOpeningPDF", before \o <<"open">>, 0)
    ELSE IF doc.bad_page \in 1..Len(doc.pages)
    THEN Failed("DecodeError", before \o <<"open", "read">>, 1)
    ELSE DetectOk(before, threshold,
                  Classify(Elements(doc.pages, Len(doc.pages)), threshold))

\* Lines 63-65 and on: auto is the outcome of the threshold detection.
DetectAfterAuto(doc, auto) ==
    IF auto.outcome # "ok"
    THEN Failed(auto.outcome, <<"exists">> \o auto.steps, auto.leaked)
    ELSE DetectFrom(doc, <<"exists">> \o auto.steps, auto.threshold)

\* detect_headers_by_font_size(doc, min_size) up to line 149: its outcome
\* and, when it is "ok", what it computed.
DetectRun(doc, min_size) ==
    IF doc.kind = "missing"
    THEN Failed("FileNotFoundError", <<"exists">>, 0)
    ELSE IF min_size = None
    THEN DetectAfterAuto(doc, AutoDetectHeaderThreshold(doc))
    ELSE DetectFrom(doc, <<"exists">>, min_size)

Calls == Docs \X MinSizes

\* DetectRun, tabulated over the calls drawn.
DetectRuns == {[doc |-> c[1], min_size |-> c[2], run |-> DetectRun(c[1], c[2])] : c \in Calls}

DetectTable(doc, min_size) ==
    (CHOOSE r \in DetectRuns : r.doc = doc /\ r.min_size = min_size).run

\* A run that adds what it found to the stored result.
DetectReturnAccumulated(stored, unique_headers) ==
    SortHeaders(UniqueHeaders(stored \o unique_headers))

\* The list a successful run returns on a detector whose stored result is
\* `stored`: the run reads its arguments only.
DetectReturn(stored, unique_headers) == unique_headers

\* A run that empties the stored result when it begins.
StoredAfterReset(outcome, stored, returned) ==
    IF outcome = "ok" THEN returned ELSE <<>>

\* self.detected_headers after a run: assigned at line 156 only.
StoredAfter(outcome, stored, returned) ==
    IF outcome = "ok" THEN returned ELSE stored

\* k.startswith('_'), on the keys of a header record.
StartsWithUnderscore(k) == k \in {"_font_size"}

\* {k: v for k, v in header.items() if not k.startswith('_')}
CleanHeader(header) ==
    [k \in {j \in DOMAIN header : ~StartsWithUnderscore(j)} |-> header[k]]

CleanHeaders(headers) == [i \in DOMAIN headers |-> CleanHeader(headers[i])]

\* The record of a call of detect_headers_by_font_size, or of a call that
\* begins with one, from its run.
DetectRecord(op, doc, min_size, run, ret) ==
    IF run.outcome = "ok"
    THEN [op |-> op, doc |-> doc, min_size |-> min_size, outcome |-> "ok",
          steps |-> Append(run.steps, "store"), leaked |-> run.leaked,
          font_analysis |-> run.font_analysis, lines |-> run.lines,
          headers |-> run.headers, ret |-> ret]
    ELSE [op |-> op, doc |-> doc, min_size |-> min_size, outcome |-> run.outcome,
          steps |-> run.steps, leaked |-> run.leaked, ret |-> <<>>]

\* The list the run returns (nothing when it raised).
Returned(stored, run) ==
    IF run.outcome = "ok" THEN DetectReturn(stored, run.unique_headers) ELSE <<>>

\* History: whether a call other than the remembered one has run since.
RefAfter(doc, min_size) ==
    IF ref.set /\ (doc # ref.doc \/ min_size # ref.min_size)
    THEN [ref EXCEPT !.between = TRUE]
    ELSE ref

DetectStep(op, doc, min_size, run, unique_headers, ret) ==
    /\ detected_headers' = StoredAfter(run.outcome, detected_headers, unique_headers)
    /\ last' = DetectRecord(op, doc, min_size, run, ret)
    /\ ref' = RefAfter(doc, min_size)
    /\ UNCHANGED <<out_file, h_in, h_out>>

detect_headers_by_font_size(doc, min_size, run, unique_headers) ==
    DetectStep("detect_headers_by_font_size", doc, min_size, run, unique_headers,
               unique_headers)

\* get_headers_json: the detection, then the records without their
\* temporary fields, as JSON (here: the list that is serialised).
get_headers_json(doc, min_size, run, headers) ==
    DetectStep("get_headers_json", doc, min_size, run, headers, CleanHeaders(headers))

\* get_font_analysis: the outcome of the call.
FontAnalysisOk(auto, all_font_sizes) ==
    [outcome |-> "ok",
     steps |-> <<"exists", "open", "read", "close">> \o auto.steps \o <<"analyze">>,
     leaked |-> auto.leaked,
     ret |-> AnalyzeFontHierarchy(all_font_sizes, auto.threshold)]

FontAnalysisRun(doc) ==
    IF doc.kind = "missing"
    THEN Failed("FileNotFoundError", <<"exists">>, 0)
    ELSE IF doc.kind = "unreadable"
    THEN Failed("FitzOpenError", <<"exists", "open">>, 0)
    ELSE IF doc.bad_page \in 1..Len(doc.pages)
    THEN Failed("DecodeError", <<"exists", "open", "read">>, 1)
    ELSE FontAnalysisOk(AutoDetectHeaderThreshold(doc),
                        FontSizes(Elements(doc.pages, Len(doc.pages))))

FontAnalysisRuns == {[doc |-> doc, run |-> FontAnalysisRun(doc)] : doc \in Docs}

FontAnalysisTable(doc) == (CHOOSE r \in FontAnalysisRuns : r.doc = doc).run

\* save_headers_to_json.  The destination holds the list that was serialised:
\* items, and complete when json.dump came to its end.  fail is where the
\* environment fails the call: "open" (open(output_file, 'w') raises),
\* "write" (json.dump raises after written items) or "none".
FileAfterSave(before, clean_headers, fail, written) ==
    IF fail = "open" THEN before
    ELSE IF fail = "write"
    THEN [exists |-> TRUE, items |-> SubSeq(clean_headers, 1, written),
          complete |-> FALSE]
    ELSE [exists |-> TRUE, items |-> clean_headers, complete |-> TRUE]

save_headers_to_json(headers, fail, written) ==
    /\ out_file' = FileAfterSave(out_file, CleanHeaders(headers), fail, written)
    /\ last' = [op |-> "save_headers_to_json", headers |-> headers,
                outcome |-> "ok", fail |-> fail, ret |-> (fail = "none")]
    /\ UNCHANGED <<detected_headers, ref, h_in, h_out>>

get_font_analysis(doc, run) ==
    /\ last' = [op |-> "get_font_analysis", doc |-> doc, min_size |-> None,
                outcome |-> run.outcome, steps |-> run.steps,
                leaked |-> run.leaked,
                ret |-> IF run.outcome = "ok" THEN run.ret ELSE <<>>]
    /\ UNCHANGED <<detected_headers, out_file, ref, h_in, h_out>>

----------------------------------------------------------------------------
(* The detector specification.                                             *)

NoCall == [op |-> "none"]

NoFile == [exists |-> FALSE]

NoRun == [set |-> FALSE]

NoInput == [set |-> FALSE]

NoResult == [done |-> FALSE]

\* HeaderDetector.__init__, and a destination file that does not exist yet.
DetectorInit ==
    /\ detected_headers = <<>>
    /\ last = NoCall
    /\ out_file = NoFile
    /\ ref = NoRun

Init ==
    /\ DetectorInit
    /\ h_in = NoInput
    /\ h_out = NoResult

DetectHeadersOn(runs) == \E r \in runs :
    \E unique_headers \in {Returned(detected_headers, r.run)} :
        detect_headers_by_font_size(r.doc, r.min_size, r.run, unique_headers)

DetectHeaders == DetectHeadersOn(DetectRuns)

GetHeadersJson == \E r \in DetectRuns :
    \E headers \in {Returned(detected_headers, r.run)} :
        get_headers_json(r.doc, r.min_size, r.run, headers)

GetFontAnalysis == \E r \in FontAnalysisRuns : get_font_analysis(r.doc, r.run)

Next == DetectHeaders \/ GetHeadersJson \/ GetFontAnalysis

Spec == Init /\ [][Next]_vars

----------------------------------------------------------------------------
(* The history specification: detection runs, one of which is remembered.  *)

Remember ==
    /\ ~ref.set
    /\ last.op = "detect_headers_by_font_size"
    /\ last.outcome = "ok"
    /\ last.min_size # None
    /\ ref' = [set |-> TRUE, doc |-> last.doc, min_size |-> last.min_size,
               ret |-> last.ret, between |-> FALSE]
    /\ UNCHANGED <<detected_headers, last, out_file, h_in, h_out>>

IdemNext == DetectHeaders \/ Remember

SpecIdem == Init /\ [][IdemNext]_vars

----------------------------------------------------------------------------
(* The saving specification: detection on a few documents, and saving the  *)
(* stored result.                                                          *)

SaveDocs == {Doc("missing", <<>>, 0), Doc("pdf", <<"intro", "bg">>, 0),
             Doc("pdf", <<"line">>, 0)}

DetectForSave == DetectHeadersOn({r \in DetectRuns : r.doc \in SaveDocs})

SaveHeaders == \E fail \in {"none", "open", "write"} :
    \E written \in (IF fail = "write" THEN 0..Len(detected_headers) ELSE {0}) :
        save_headers_to_json(detected_headers, fail, written)

SaveNext == DetectForSave \/ SaveHeaders

SpecSave == Init /\ [][SaveNext]_vars

----------------------------------------------------------------------------
(* The analysis specification: _analyze_font_hierarchy applied to drawn    *)
(* inputs.                                                                 *)

NumSizes == 6

\* Raw span sizes, in hundredths; the first NumSizes of them are drawn.
SizePool == <<1204, 1378, 1421, 1458, 1500, 2400, 1196, 2030>>

PoolIndex == 1..NumSizes

\* How often a drawn size occurs: not at all, once, or often enough (> 5) to
\* be a body-text candidate.
CountChoices == {0, 1, FrequentCount + 1}

HierMinSizes == {1100, 1250, 1390, 2000}

\* n copies of e.
Copies(e, n) == [i \in 1..n |-> e]

\* A list of font sizes holding SizePool[i] counts[i] times, the sizes first
\* occurring in pool order except for SizePool[lastIdx], which occurs last
\* (lastIdx = 0: pool order throughout).
RECURSIVE SizeList(_, _, _)
SizeList(counts, lastIdx, i) ==
    IF i > NumSizes
    THEN IF lastIdx = 0 THEN <<>> ELSE Copies(SizePool[lastIdx], counts[lastIdx])
    ELSE (IF i = lastIdx THEN <<>> ELSE Copies(SizePool[i], counts[i]))
         \o SizeList(counts, lastIdx, i + 1)

HierInputs ==
    {[set |-> TRUE, all_font_sizes |-> SizeList(c, l, 1), min_size |-> m] :
        <<c, l, m>> \in {t \in [PoolIndex -> CountChoices] \X (0..NumSizes) \X HierMinSizes :
                            t[2] # 0 => t[1][t[2]] > 0}}

HierInit ==
    /\ DetectorInit
    /\ h_in \in HierInputs
    /\ h_out = NoResult

\* _analyze_font_hierarchy(all_font_sizes, min_size) on the drawn input.
HierAnalyze ==
    /\ ~h_out.done
    /\ h_out' = [done |-> TRUE,
                 result |-> AnalyzeFontHierarchy(h_in.all_font_sizes, h_in.min_size)]
    /\ UNCHANGED <<detected_headers, last, out_file, ref, h_in>>

HierNext == HierAnalyze

SpecHier == HierInit /\ [][HierNext]_vars

----------------------------------------------------------------------------
(* The grouping specification: _group_by_y_position on every list of at    *)
(* most MaxElems elements, each on one of two pages at one of the heights  *)
(* 100.2, 100.9, 101.3 and 105.0, with tolerance 1.0 or 5.0.  The i-th     *)
(* element has x = i.                                                      *)

MaxElems == 4

GroupPages == {1, 2}

YPool == {1002, 1009, 1013, 1050}

GroupTolerances == {Tolerance, 50}

GroupElements(places) ==
    [i \in DOMAIN places |-> [page |-> places[i][1], y |-> places[i][2], x |-> i]]

GroupInputs ==
    {[set |-> TRUE, elements |-> GroupElements(places), tolerance |-> t] :
        places \in UNION {[1..n -> GroupPages \X YPool] : n \in 0..MaxElems},
        t \in GroupTolerances}

GroupInit ==
    /\ DetectorInit
    /\ h_in \in GroupInputs
    /\ h_out = NoResult

GroupScan ==
    /\ h_in.set
    /\ ~h_out.done
    /\ h_out' = [done |-> TRUE,
                 groups |-> GroupByYPosition(h_in.elements, h_in.tolerance)]
    /\ UNCHANGED <<detected_headers, last, out_file, ref, h_in>>

GroupNext == GroupScan

SpecGroup == GroupInit /\ [][GroupNext]_vars

----------------------------------------------------------------------------
(* Claims.                                                                 *)

\* C1. Monotonic leveling: of two sizes that both have a level in the
\* hierarchy returned by _analyze_font_hierarchy, the larger size never has
\* the numerically larger level.
MonotonicLeveling ==
    h_out.done =>
        \A a, b \in DOMAIN h_out.result.size_to_level :
            a > b => h_out.result.size_to_level[a] <= h_out.result.size_to_level[b]

\* C1 happens: a hierarchy of at least three levels in which one size lies
\* within 0.5pt of two representatives, and one with two sizes on one level.
MonotonicLevelingWitness ==
    /\ h_out.done
    /\ h_out.result.total_levels >= 3
    /\ \E a, b \in DOMAIN h_out.result.size_to_level :
          a > b /\ h_out.result.size_to_level[a] = h_out.result.size_to_level[b]
    /\ \E a \in DOMAIN h_out.result.size_to_level :
          \E i, j \in DOMAIN h_out.result.filtered_sizes :
              /\ i # j
              /\ CloseTo(a, h_out.result.filtered_sizes[i])
              /\ CloseTo(a, h_out.result.filtered_sizes[j])

\* C2. Deduplication keeps the first occurrence: the list returned by
\* detect_headers_by_font_size has no two records with the same header text,
\* and of every text that qualified the record kept is the first one met in
\* page-then-group order.
DedupKeepsFirst ==
    (last.op = "detect_headers_by_font_size" /\ last.outcome = "ok") =>
        /\ \A i, j \in DOMAIN last.ret :
              i # j => last.ret[i].header # last.ret[j].header
        /\ \A k \in DOMAIN last.headers :
              \E i \in DOMAIN last.ret :
                  last.ret[i] = last.headers[Min({m \in DOMAIN last.headers :
                                    last.headers[m].header = last.headers[k].header})]

\* C2 happens: a heading qualified on page 1 and again on page 3, and the
\* returned list reports it with page 1.
DedupKeepsFirstWitness ==
    /\ last.op = "detect_headers_by_font_size"
    /\ last.outcome = "ok"
    /\ \E k, m \in DOMAIN last.headers :
          /\ last.headers[k].header = last.headers[m].header
          /\ last.headers[k].page = 1
          /\ last.headers[m].page = 3
          /\ \E i \in DOMAIN last.ret : last.ret[i] = last.headers[k]

\* C3. Page order: the records returned by detect_headers_by_font_size are
\* in non-decreasing order of page.
PageOrdered ==
    (last.op = "detect_headers_by_font_size" /\ last.outcome = "ok") =>
        \A i, j \in DOMAIN last.ret :
            i < j => last.ret[i].page <= last.ret[j].page

\* C3 happens: a returned list of at least three records, of more than one
\* page.
PageOrderedWitness ==
    /\ last.op = "detect_headers_by_font_size"
    /\ last.outcome = "ok"
    /\ Len(last.ret) >= 3
    /\ \E i, j \in DOMAIN last.ret : last.ret[i].page < last.ret[j].page

\* C4. Length filter: every record returned by detect_headers_by_font_size
\* has a header text longer than 2 and shorter than 300 characters, so that
\* no line of length <= 2 or >= 300 is emitted, whatever its font size.
LengthFilter ==
    (last.op = "detect_headers_by_font_size" /\ last.outcome = "ok") =>
        /\ \A i \in DOMAIN last.ret :
              TextLen(last.ret[i].header) > 2 /\ TextLen(last.ret[i].header) < 300
        /\ \A g \in DOMAIN last.lines :
              (TextLen(last.lines[g].text) <= 2 \/ TextLen(last.lines[g].text) >= 300)
                  => \A i \in DOMAIN last.ret : last.ret[i].header # last.lines[g].text

\* C4 happens: the document has lines of 300 and of 2 characters in fonts
\* larger than 20pt that have a level, and the returned list has headers of
\* 299 and of 3 characters.
LengthFilterWitness ==
    /\ last.op = "detect_headers_by_font_size"
    /\ last.outcome = "ok"
    /\ \E g, h \in DOMAIN last.lines :
          /\ TextLen(last.lines[g].text) = 300
          /\ TextLen(last.lines[h].text) = 2
          /\ last.lines[g].max_font_size > LargeFont
          /\ last.lines[h].max_font_size > LargeFont
          /\ last.lines[g].max_font_size \in DOMAIN last.font_analysis.header_levels
          /\ last.lines[h].max_font_size \in DOMAIN last.font_analysis.header_levels
    /\ \E i, j \in DOMAIN last.ret :
          TextLen(last.ret[i].header) = 299 /\ TextLen(last.ret[j].header) = 3

\* C5. No internal field: no record of the list returned by
\* detect_headers_by_font_size and stored in detected_headers, of the value
\* of get_headers_json or of the file written by save_headers_to_json has a
\* key that starts with an underscore.
NoInternalFields ==
    /\ \A i \in DOMAIN detected_headers :
          \A k \in DOMAIN detected_headers[i] : ~StartsWithUnderscore(k)
    /\ (last.op \in {"detect_headers_by_font_size", "get_headers_json"}
            /\ last.outcome = "ok") =>
          \A i \in DOMAIN last.ret :
              \A k \in DOMAIN last.ret[i] : ~StartsWithUnderscore(k)
    /\ out_file.exists =>
          \A i \in DOMAIN out_file.items :
              \A k \in DOMAIN out_file.items[i] : ~StartsWithUnderscore(k)

\* C6. Idempotence: a run of detect_headers_by_font_size on the document and
\* with the explicit min_size of a remembered run returns what that run
\* returned, whatever the detector has run in between.
Idempotent ==
    (/\ ref.set
     /\ last.op = "detect_headers_by_font_size"
     /\ last.outcome = "ok"
     /\ last.doc = ref.doc
     /\ last.min_size = ref.min_size) => last.ret = ref.ret

\* C6 happens: the remembered call has been repeated after a call on another
\* input, on a detector whose remembered result had headers.
IdempotentWitness ==
    /\ ref.set
    /\ ref.between
    /\ ref.ret # <<>>
    /\ last.op = "detect_headers_by_font_size"
    /\ last.outcome = "ok"
    /\ last.doc = ref.doc
    /\ last.min_size = ref.min_size

\* C7. Rule 1 first: _is_likely_body_text is false of every line whose font
\* size is larger than 20pt, and such a line, when its size has a level and
\* its text has 3 to 299 characters, is among the returned headers.
LargeFontNeverBody ==
    (last.op = "detect_headers_by_font_size" /\ last.outcome = "ok") =>
        \A g \in DOMAIN last.lines :
            last.lines[g].max_font_size > 2000 =>
                /\ ~IsLikelyBodyText(last.lines[g].text, last.lines[g].max_font_size)
                /\ (/\ last.lines[g].max_font_size
                            \in DOMAIN last.font_analysis.header_levels
                    /\ TextLen(last.lines[g].text) \in 3..299)
                        => \E i \in DOMAIN last.ret :
                               last.ret[i].header = last.lines[g].text

\* C7 happens: the returned list has a header in a font larger than 20pt of
\* more than 15 words, most of them stop words, and one of more than 200
\* characters.
LargeFontNeverBodyWitness ==
    /\ last.op = "detect_headers_by_font_size"
    /\ last.outcome = "ok"
    /\ \E i, j \in DOMAIN last.ret :
          /\ last.ret[i]._font_size > 2000
          /\ Len(last.ret[i].header) > 15
          /\ 2 * Cardinality({w \in DOMAIN last.ret[i].header :
                    Lower(last.ret[i].header[w]) \in body_indicators})
                > Len(last.ret[i].header)
          /\ last.ret[j]._font_size > 2000
          /\ TextLen(last.ret[j].header) > 200

\* C8. A failed run is atomic: a missing path fails with FileNotFoundError
\* after the existence test alone, and every failed call of
\* detect_headers_by_font_size returns no records and leaves detected_headers
\* as it was.
FailedRunAtomic ==
    /\ [](last.op = "detect_headers_by_font_size" =>
            /\ (last.doc.kind = "missing") = (last.outcome = "FileNotFoundError")
            /\ last.outcome = "FileNotFoundError" => last.steps = <<"exists">>)
    /\ [][(last'.op = "detect_headers_by_font_size" /\ last'.outcome # "ok")
            => (detected_headers' = detected_headers /\ last'.ret = <<>>)]_vars

\* C8 happens: a call failed while the pages were read, on a detector that
\* holds the headers of an earlier run.
FailedRunAtomicWitness ==
    /\ last.op = "detect_headers_by_font_size"
    /\ last.outcome = "DecodeError"
    /\ detected_headers # <<>>

\* C9. Serialization is all-or-nothing: a call of save_headers_to_json that
\* returns true leaves the complete list in the file, and one that returns
\* false leaves the file as it was.
SaveAllOrNothing ==
    [][last'.op = "save_headers_to_json" =>
          \/ /\ last'.ret
             /\ out_file'.exists
             /\ out_file'.complete
             /\ out_file'.items = CleanHeaders(last'.headers)
          \/ /\ ~last'.ret
             /\ out_file' = out_file]_vars

\* C10. Levels are ranks: the representatives in filtered_sizes descend, the
\* i-th of them has level i, the levels in use are 1..total_levels, and the
\* document of 200 fragments at 12.0pt with "Introduction" at 24.0pt on page
\* 1 and "Background" at 18.0pt on page 2 yields, with the threshold
\* detected, those two headers with levels 1 and 2.
LevelsAreRanks ==
    (last.op = "detect_headers_by_font_size" /\ last.outcome = "ok") =>
        /\ last.font_analysis.total_levels = Len(last.font_analysis.filtered_sizes)
        /\ \A i, j \in DOMAIN last.font_analysis.filtered_sizes :
              i < j => last.font_analysis.filtered_sizes[i]
                          > last.font_analysis.filtered_sizes[j]
        /\ \A i \in DOMAIN last.font_analysis.filtered_sizes :
              /\ last.font_analysis.filtered_sizes[i]
                    \in DOMAIN last.font_analysis.size_to_level
              /\ last.font_analysis.size_to_level[
                    last.font_analysis.filtered_sizes[i]] = i
        /\ {last.font_analysis.size_to_level[z] :
                z \in DOMAIN last.font_analysis.size_to_level}
              = 1..last.font_analysis.total_levels
        /\ (last.doc = ScenarioA /\ last.min_size = None) =>
              CleanHeaders(last.ret) =
                  <<[header |-> <<"Introduction">>, header_level_name |-> "level 1",
                     page |-> 1, header_level |-> 1],
                    [header |-> <<"Background">>, header_level_name |-> "level 2",
                     page |-> 2, header_level |-> 2]>>

\* C10 happens: the threshold was detected on that document and the call
\* returned two records.
LevelsAreRanksWitness ==
    /\ last.op = "detect_headers_by_font_size"
    /\ last.outcome = "ok"
    /\ last.doc = ScenarioA
    /\ last.min_size = None
    /\ Len(last.ret) = 2

\* C11. Demoted sizes get no level: when a body-text size was detected (a
\* size of at most 20pt counted more than 5 times among the most common),
\* a header size that is neither larger than 20pt nor larger than
\* body_text_size + 2.0 is no key of size_to_level, and no returned header
\* has it as its font size.
DemotedNeverLeveled ==
    (/\ last.op = "detect_headers_by_font_size"
     /\ last.outcome = "ok"
     /\ \E f \in DOMAIN last.font_analysis.font_frequency :
           /\ last.font_analysis.font_frequency[f][1] <= 2000
           /\ last.font_analysis.font_frequency[f][2] > 5) =>
        \A k \in DOMAIN last.font_analysis.header_sizes :
            (/\ last.font_analysis.header_sizes[k] <= 2000
             /\ last.font_analysis.header_sizes[k]
                    <= last.font_analysis.body_text_size + 200) =>
                /\ last.font_analysis.header_sizes[k]
                        \notin DOMAIN last.font_analysis.size_to_level
                /\ \A i \in DOMAIN last.ret :
                        last.ret[i]._font_size # last.font_analysis.header_sizes[k]

\* C12. The filter is relative to the reported body size: every size of
\* filtered_sizes in a result of _analyze_font_hierarchy is larger than 20pt
\* or larger than the reported body_text_size + 2.0, also when no frequent
\* size exists and body_text_size is min_size.
FilteredAboveReportedBody ==
    h_out.done =>
        \A i \in DOMAIN h_out.result.filtered_sizes :
            \/ h_out.result.filtered_sizes[i] > 2000
            \/ h_out.result.filtered_sizes[i] > h_out.result.body_text_size + 200

\* C13. Clustered sizes share one level: every size collected into a cluster
\* by the clustering loop has in size_to_level the level of the cluster's
\* representative.
ClusterSharesLevel ==
    h_out.done =>
        LET rounded == RoundAll(h_in.all_font_sizes)
            f == FilterSizes(rounded, HeaderUniqueSizes(rounded, h_in.min_size),
                             h_in.min_size)
            clusters == Clusters(f.filtered_sizes)
        IN  \A c \in DOMAIN clusters :
                \A s \in clusters[c].members :
                    /\ s \in DOMAIN h_out.result.size_to_level
                    /\ clusters[c].rep \in DOMAIN h_out.result.size_to_level
                    /\ h_out.result.size_to_level[s]
                          = h_out.result.size_to_level[clusters[c].rep]

\* C14. Grouping by anchor: _group_by_y_position puts every element in
\* exactly one group; the members of a group have one page and lie within
\* tolerance of the group's first element; on one page the first element of
\* a group is more than tolerance away from the first element of the group
\* before; elements at 100.2 and 100.9 form one group and one at 105.0 the
\* next; no elements give no groups.
GroupedByAnchor ==
    h_out.done =>
        /\ Len(Flatten(h_out.groups)) = Len(h_in.elements)
        /\ \A i \in DOMAIN h_in.elements :
              \E a \in DOMAIN h_out.groups :
                  \E b \in DOMAIN h_out.groups[a] :
                      h_out.groups[a][b] = h_in.elements[i]
        /\ \A a \in DOMAIN h_out.groups :
              /\ h_out.groups[a] # <<>>
              /\ \A b \in DOMAIN h_out.groups[a] :
                    /\ h_out.groups[a][b].page = h_out.groups[a][1].page
                    /\ Abs(h_out.groups[a][b].y - h_out.groups[a][1].y)
                          <= h_in.tolerance
              /\ (a > 1 /\ h_out.groups[a - 1][1].page = h_out.groups[a][1].page) =>
                    Abs(h_out.groups[a][1].y - h_out.groups[a - 1][1].y)
                        > h_in.tolerance
        /\ (h_in.elements = <<>>) => (h_out.groups = <<>>)
        /\ (/\ h_in.tolerance = 10
            /\ h_in.elements = <<[page |-> 1, y |-> 1002, x |-> 1],
                                 [page |-> 1, y |-> 1009, x |-> 2],
                                 [page |-> 1, y |-> 1050, x |-> 3]>>) =>
              h_out.groups = <<<<[page |-> 1, y |-> 1002, x |-> 1],
                                 [page |-> 1, y |-> 1009, x |-> 2]>>,
                               <<[page |-> 1, y |-> 1050, x |-> 3]>>>>

\* C14 happens: the elements at 100.2, 100.9 and 105.0 of one page have been
\* grouped with tolerance 1.0.
GroupedByAnchorWitness ==
    /\ h_out.done
    /\ h_in.tolerance = 10
    /\ h_in.elements = <<[page |-> 1, y |-> 1002, x |-> 1],
                         [page |-> 1, y |-> 1009, x |-> 2],
                         [page |-> 1, y |-> 1050, x |-> 3]>>
    /\ Len(h_out.groups) = 2

\* C15. Handles are closed within the call: when detect_headers_by_font_size
\* (with its threshold detection) or get_font_analysis has ended, by
\* returning or by raising, no document handle that the call opened is left
\* open.
HandlesClosed ==
    last.op \in {"detect_headers_by_font_size", "get_font_analysis"} =>
        last.leaked = 0

============================================================================
